---- MODULE Spec2Model ----
(***************************************************************************)
(* Student-management REST backend.  Two deployments of the same HTTP      *)
(* surface exist in the repository: the stricter one (src/main.py) and the *)
(* permissive one (src/backend/main.py).  The state is the document        *)
(* database (one sequence of documents per collection, in insertion        *)
(* order), the wall clock, the worker threads that are between the read    *)
(* and the write of a read-then-write handler, and the last response sent. *)
(*                                                                         *)
(* Documents carry the fields the handlers read or return.  Timestamps no  *)
(* handler reads (created_at/updated_at of identities and courses, dates   *)
(* of attendance and grades) and free-text payload fields that are passed  *)
(* through untouched (description, instructor, capacity, label) are left   *)
(* out of the documents.                                                   *)
(***************************************************************************)
EXTENDS Integers, Sequences, FiniteSets, TLC

VARIABLES variant, now, student, session, course, enrollment, attendance,
          grade, pending, resp

vars == <<variant, now, student, session, course, enrollment, attendance,
          grade, pending, resp>>

\* ------------------------------------------------------------------ bounds
MaxTime == 2
MaxStudents == 2
MaxSessions == 2
MaxEmail == 2
MaxPassword == 1
MaxCreate == 2
MaxCourses == 6
MaxCourseRef == 1
MaxEnrollments == 2
MaxAttendance == 1
MaxGrades == 2
MaxGrade == 1
MaxThreads == 2

\* timedelta(days=7); the clock counts weeks, so a session minted at t
\* expires at t + 1 and the instant of expiry is a value the clock takes
SessionWeeks == 1

Variants == {"strict", "backend"}
Names == {"A"}
Emails == 1..MaxEmail
Passwords == 1..MaxPassword
\* what a login may supply: 0 is a credential nobody registered with
LoginPasswords == 0..MaxPassword
Codes == {"CS101", "X1"}
Titles == {"T"}
GradeValues == 0..MaxGrade
Threads == 1..MaxThreads

\* ------------------------------------------------------------- identifiers
\* An ObjectId is a positive integer.  A 24-digit hex string is the pair of
\* the id it denotes and the case its digits are written in; hex 0 is a
\* string that is not 24 hex digits.
Str(oid) == [hex |-> oid, case |-> "lower"]

IsValidId(id_str) == id_str.hex >= 1

ObjectId(id_str) == id_str.hex

BadId == [hex |-> 0, case |-> "lower"]

\* what clients send as course_id: the canonical string of a course id, the
\* first id in upper-case digits, or a string that is no id
CourseRefs ==
    {Str(i) : i \in 1..MaxCourseRef} \cup {[hex |-> 1, case |-> "upper"]} \cup {BadId}

\* Authorization headers: absent (or empty), "Bearer <cred>", or "<cred>"
\* alone.  cred 0 is a string no session ever carries; the credentials sent
\* bare are the tokens.
NoHeader == [kind |-> "none", cred |-> 0]

Headers ==
    {NoHeader} \cup [kind : {"bearer"}, cred : 0..MaxSessions]
               \cup [kind : {"raw"}, cred : 1..MaxSessions]

\* ------------------------------------------------------------------ helpers
\* sha256(...).hexdigest(): one-way, injective on the plaintexts of the model
\* and never equal to one of them.
hash_password(password) == 256 + password

\* collection.insert_one(doc): the new document gets a fresh _id
InsertedId(coll) == Len(coll) + 1

\* secrets.token_urlsafe / token_hex: a value no stored session carries
NewToken == Len(session) + 1

\* The last exchange: the response sent (status and body), the route, the
\* identity the gate resolved for the request (Anonymous when the route has
\* no gate or the gate refused) and, for the two auth routes, the request
\* body.
Anonymous == [role |-> "anonymous"]

NoBody == [none |-> TRUE]

Reply(op, status, body, user) ==
    [op |-> op, status |-> status, body |-> body, user |-> user, req |-> NoBody]

Exchange(req, reply) == [reply EXCEPT !.req = req]

Error(op, status, detail) == Reply(op, status, [detail |-> detail], Anonymous)

Ok(op, body) == Reply(op, 200, body, Anonymous)

Refused(op, gate) == Error(op, gate.status, gate.detail)

Idle == [op |-> "idle"]

\* -------------------------------------------------------- authentication
\* src/main.py get_current_user
StrictToken(authorization) == authorization.cred

StrictExpired(sess) == sess.expires_at < now

StrictView(user) ==
    [_id |-> Str(user._id), name |-> user.name, email |-> user.email,
     role |-> user.role]

StrictGate(authorization) ==
    IF authorization.kind = "none"
    THEN [ok |-> FALSE, status |-> 401, detail |-> "Missing Authorization header"]
    ELSE LET token == StrictToken(authorization)
             IsTok(s) == s.token = token
             found == SelectSeq(session, IsTok)
         IN  IF found = <<>>
             THEN [ok |-> FALSE, status |-> 401, detail |-> "Invalid token"]
             ELSE IF StrictExpired(found[1])
             THEN [ok |-> FALSE, status |-> 401, detail |-> "Token expired"]
             ELSE LET IsUser(u) == u._id = found[1].user_id
                      users == SelectSeq(student, IsUser)
                  IN  IF users = <<>>
                      THEN [ok |-> FALSE, status |-> 401, detail |-> "User not found"]
                      ELSE [ok |-> TRUE, user |-> StrictView(users[1])]

\* src/backend/main.py to_dict
to_dict(doc) == [doc EXCEPT !._id = Str(doc._id)]

BackendHasBearer(authorization) == authorization.kind = "bearer"

BackendLive(sess) == sess.expires_at > now

\* src/backend/main.py get_current_user
BackendGate(authorization) ==
    IF ~BackendHasBearer(authorization)
    THEN [ok |-> FALSE, status |-> 401, detail |-> "Missing token"]
    ELSE LET token == authorization.cred
             IsLive(s) == s.token = token /\ BackendLive(s)
             found == SelectSeq(session, IsLive)
         IN  IF found = <<>>
             THEN [ok |-> FALSE, status |-> 401, detail |-> "Invalid or expired token"]
             ELSE LET IsUser(u) == u._id = ObjectId(found[1].student_id)
                      users == SelectSeq(student, IsUser)
                  IN  IF users = <<>>
                      THEN [ok |-> FALSE, status |-> 401, detail |-> "User not found"]
                      ELSE [ok |-> TRUE, user |-> to_dict(users[1])]

get_current_user(authorization) ==
    IF variant = "strict" THEN StrictGate(authorization)
    ELSE BackendGate(authorization)

\* ------------------------------------------------------------ documents
\* the document register would store if it granted the administrator role
AdminStudent(id, name, email, password) ==
    [_id |-> id, name |-> name, email |-> email,
     password_hash |-> hash_password(password), role |-> "admin",
     is_active |-> TRUE]

StrictStudent(id, name, email, password) ==
    [_id |-> id, name |-> name, email |-> email,
     password_hash |-> hash_password(password), role |-> "student",
     is_active |-> TRUE]

BackendStudent(id, name, email, password) ==
    [_id |-> id, name |-> name, email |-> email, password |-> password,
     role |-> "student"]

StrictSession(user_id, token) ==
    [_id |-> InsertedId(session), user_id |-> user_id, token |-> token,
     expires_at |-> now + SessionWeeks, created_at |-> now]

BackendSession(student_id, token) ==
    [_id |-> InsertedId(session), student_id |-> student_id, token |-> token,
     expires_at |-> now + SessionWeeks, created_at |-> now]

PublicUser(user) ==
    [_id |-> Str(user._id), name |-> user.name, email |-> user.email,
     role |-> user.role]

EmailTaken(email) == \E i \in DOMAIN student : student[i].email = email

\* ------------------------------------------------------------------- auth
\* POST /auth/register
RegisterBody(name, email, password) ==
    [name |-> name, email |-> email, password |-> password]

\* register without the lookup of the email
RegisterUnchecked(name, email, password) ==
    LET doc == StrictStudent(InsertedId(student), name, email, password)
        token == NewToken
    IN  /\ student' = Append(student, doc)
        /\ session' = Append(session, StrictSession(doc._id, token))
        /\ resp' = Exchange(RegisterBody(name, email, password),
                       Ok("register", [token |-> token, user |-> PublicUser(doc)]))

\* src/main.py register
StrictRegister(name, email, password) ==
    IF EmailTaken(email)
    THEN /\ resp' = Exchange(RegisterBody(name, email, password),
                             Error("register", 400, "Email already registered"))
         /\ UNCHANGED <<student, session>>
    ELSE LET doc == StrictStudent(InsertedId(student), name, email, password)
             token == NewToken
         IN  /\ student' = Append(student, doc)
             /\ session' = Append(session, StrictSession(doc._id, token))
             /\ resp' = Exchange(RegisterBody(name, email, password),
                            Ok("register", [token |-> token, user |-> PublicUser(doc)]))

\* src/backend/main.py register
BackendRegister(name, email, password) ==
    IF EmailTaken(email)
    THEN /\ resp' = Exchange(RegisterBody(name, email, password),
                             Error("register", 400, "Email already registered"))
         /\ UNCHANGED <<student, session>>
    ELSE LET doc == BackendStudent(InsertedId(student), name, email, password)
             token == NewToken
         IN  /\ student' = Append(student, doc)
             /\ session' = Append(session, BackendSession(Str(doc._id), token))
             /\ resp' = Exchange(RegisterBody(name, email, password),
                            Ok("register", [token |-> token, user |-> PublicUser(doc)]))

RegisterRequest(name, email, password) ==
    /\ IF variant = "strict" THEN StrictRegister(name, email, password)
       ELSE BackendRegister(name, email, password)
    /\ UNCHANGED <<variant, now, course, enrollment, attendance, grade, pending>>

Register ==
    \E name \in Names, email \in Emails, password \in Passwords :
        /\ RegisterRequest(name, email, password)
        /\ Len(student') <= MaxStudents
        /\ Len(session') <= MaxSessions

\* POST /auth/login
\* login that looks the identity up by email alone
LoginByEmailOnly(email, password) ==
    LET IsUser(u) == u.email = email
    IN  SelectSeq(student, IsUser)

StrictLoginUser(email, password) ==
    LET IsUser(u) == u.email = email
        users == SelectSeq(student, IsUser)
    IN  IF users = <<>> \/ users[1].password_hash # hash_password(password)
        THEN <<>> ELSE <<users[1]>>

BackendLoginUser(email, password) ==
    LET IsUser(u) == u.email = email /\ u.password = password
    IN  SelectSeq(student, IsUser)

LoginUser(email, password) ==
    IF variant = "strict" THEN StrictLoginUser(email, password)
    ELSE BackendLoginUser(email, password)

LoginBody(email, password) == [email |-> email, password |-> password]

LoginFailure == Error("login", 401, "Invalid credentials")

LoginRequest(email, password) ==
    LET users == LoginUser(email, password)
    IN  /\ IF users = <<>>
           THEN /\ resp' = Exchange(LoginBody(email, password), LoginFailure)
                /\ UNCHANGED session
           ELSE LET token == NewToken
                IN  /\ session' = Append(session,
                           IF variant = "strict"
                           THEN StrictSession(users[1]._id, token)
                           ELSE BackendSession(Str(users[1]._id), token))
                    /\ resp' = Exchange(LoginBody(email, password),
                                   Ok("login", [token |-> token,
                                                user |-> PublicUser(users[1])]))
        /\ UNCHANGED <<variant, now, student, course, enrollment,
                       attendance, grade, pending>>

Login ==
    \E email \in Emails, password \in LoginPasswords :
        /\ LoginRequest(email, password)
        /\ Len(session') <= MaxSessions

\* ---------------------------------------------------------------- courses
CourseDoc(code, title) == [_id |-> InsertedId(course), code |-> code, title |-> title]

CodeExists(code) == \E i \in DOMAIN course : course[i].code = code

FindCourse(oid) ==
    LET IsCourse(c) == c._id = oid
    IN  SelectSeq(course, IsCourse)

\* create_course that checks the code but not the caller's role
CreateCourseAnyRole(user, code, title) ==
    IF CodeExists(code)
    THEN /\ resp' = Reply("create_course", 400, [detail |-> "Course code exists"], user)
         /\ UNCHANGED course
    ELSE /\ course' = Append(course, CourseDoc(code, title))
         /\ resp' = Reply("create_course", 200, to_dict(CourseDoc(code, title)), user)

\* POST /courses, src/main.py create_course
StrictCreateCourse(user, code, title) ==
    IF user.role # "admin"
    THEN /\ resp' = Reply("create_course", 403,
                          [detail |-> "Only admin can create courses"], user)
         /\ UNCHANGED course
    ELSE IF CodeExists(code)
    THEN /\ resp' = Reply("create_course", 400, [detail |-> "Course code exists"], user)
         /\ UNCHANGED course
    ELSE /\ course' = Append(course, CourseDoc(code, title))
         /\ resp' = Reply("create_course", 200, to_dict(CourseDoc(code, title)), user)

\* POST /courses, src/backend/main.py create_course
BackendCreateCourse(user, code, title) ==
    /\ course' = Append(course, CourseDoc(code, title))
    /\ resp' = Reply("create_course", 200, to_dict(CourseDoc(code, title)), user)

CreateCourseRequest(authorization, code, title) ==
    LET gate == get_current_user(authorization)
    IN  /\ IF ~gate.ok
           THEN /\ resp' = Refused("create_course", gate)
                /\ UNCHANGED course
           ELSE IF variant = "strict"
           THEN StrictCreateCourse(gate.user, code, title)
           ELSE BackendCreateCourse(gate.user, code, title)
        /\ UNCHANGED <<variant, now, student, session, enrollment,
                       attendance, grade, pending>>

CreateCourse ==
    \E authorization \in Headers, code \in Codes, title \in Titles :
        /\ CreateCourseRequest(authorization, code, title)
        /\ course' # course => Len(course') <= MaxCreate

\* ------------------------------------------------------------- enrollment
FindEnrollment(student_id, course_id) ==
    LET IsEnr(e) == e.student_id = student_id /\ e.course_id = course_id
    IN  SelectSeq(enrollment, IsEnr)

InFlight(op) == Cardinality({t \in Threads : pending[t].op = op})

StrictEnrollment(student_id, course_id) ==
    [_id |-> InsertedId(enrollment), student_id |-> student_id,
     course_id |-> course_id, status |-> "enrolled"]

BackendEnrollment(student_id, course_id) ==
    [_id |-> InsertedId(enrollment), student_id |-> student_id,
     course_id |-> course_id]

\* POST /enroll up to the existence check: the outcome, or "insert" when the
\* handler goes on to write
StrictEnrollCheck(user, course_id) ==
    IF ~IsValidId(course_id)
    THEN Reply("enroll", 400, [detail |-> "Invalid id format"], user)
    ELSE IF FindCourse(ObjectId(course_id)) = <<>>
    THEN Reply("enroll", 404, [detail |-> "Course not found"], user)
    ELSE IF FindEnrollment(user._id, course_id) # <<>>
    THEN Reply("enroll", 400, [detail |-> "Already enrolled"], user)
    ELSE Reply("enroll", 0, [detail |-> "insert"], user)

BackendEnrollCheck(user, course_id) ==
    IF ~IsValidId(course_id)
    THEN Reply("enroll", 500, [detail |-> "InvalidId"], user)
    ELSE IF FindCourse(ObjectId(course_id)) = <<>>
    THEN Reply("enroll", 404, [detail |-> "Course not found"], user)
    ELSE IF FindEnrollment(user._id, course_id) # <<>>
    THEN Reply("enroll", 200, to_dict(FindEnrollment(user._id, course_id)[1]), user)
    ELSE Reply("enroll", 0, [detail |-> "insert"], user)

EnrollCheck(user, course_id) ==
    IF variant = "strict" THEN StrictEnrollCheck(user, course_id)
    ELSE BackendEnrollCheck(user, course_id)

\* a worker runs the gate and the handler up to its find_one
EnrollBegin(t) ==
    \E authorization \in Headers, course_id \in CourseRefs :
        LET gate == get_current_user(authorization)
            out == IF gate.ok THEN EnrollCheck(gate.user, course_id)
                   ELSE Refused("enroll", gate)
        IN  /\ pending[t].op = "idle"
            /\ IF out.status = 0
               THEN /\ Len(enrollment) + InFlight("enroll") < MaxEnrollments
                    /\ pending' = [pending EXCEPT ![t] =
                           [op |-> "enroll", user |-> gate.user, course_id |-> course_id]]
                    /\ UNCHANGED resp
               ELSE /\ resp' = out
                    /\ UNCHANGED pending
            /\ UNCHANGED <<variant, now, student, session, course, enrollment,
                           attendance, grade>>

\* the worker's insert_one and response
EnrollInsert(t) ==
    /\ pending[t].op = "enroll"
    /\ LET user == pending[t].user
           enr == IF variant = "strict"
                  THEN StrictEnrollment(user._id, pending[t].course_id)
                  ELSE BackendEnrollment(user._id, pending[t].course_id)
       IN  /\ enrollment' = Append(enrollment, enr)
           /\ resp' = IF variant = "strict"
                      THEN Reply("enroll", 200, [message |-> "Enrolled successfully"], user)
                      ELSE Reply("enroll", 200, to_dict(enr), user)
    /\ pending' = [pending EXCEPT ![t] = Idle]
    /\ UNCHANGED <<variant, now, student, session, course, attendance, grade>>

\* POST /enroll handled without another request in between
Enroll ==
    \E authorization \in Headers, course_id \in CourseRefs :
        LET gate == get_current_user(authorization)
            out == IF gate.ok THEN EnrollCheck(gate.user, course_id)
                   ELSE Refused("enroll", gate)
            enr == IF variant = "strict"
                   THEN StrictEnrollment(gate.user._id, course_id)
                   ELSE BackendEnrollment(gate.user._id, course_id)
        IN  /\ \A t \in Threads : pending[t].op = "idle"
            /\ IF out.status = 0
               THEN /\ Len(enrollment) < MaxEnrollments
                    /\ enrollment' = Append(enrollment, enr)
                    /\ resp' = IF variant = "strict"
                               THEN Reply("enroll", 200,
                                          [message |-> "Enrolled successfully"], gate.user)
                               ELSE Reply("enroll", 200, to_dict(enr), gate.user)
               ELSE /\ resp' = out
                    /\ UNCHANGED enrollment
            /\ UNCHANGED <<variant, now, student, session, course, attendance,
                           grade, pending>>

\* ------------------------------------------------- attendance and grades
Record(coll, student_id, course_id) ==
    [_id |-> InsertedId(coll), student_id |-> student_id, course_id |-> course_id]

\* src/main.py mark_attendance, add_grade: the caller must be enrolled
StrictEnrolled(user, course_id) == FindEnrollment(user._id, course_id) # <<>>

\* the write guarded by the existence of the course instead
WriteIfCourseExists(op, user, course_id) ==
    IF ~IsValidId(course_id) \/ FindCourse(ObjectId(course_id)) = <<>>
    THEN Reply(op, 404, [detail |-> "Course not found"], user)
    ELSE Reply(op, 0, [detail |-> "insert"], user)

StrictWrite(op, user, course_id) ==
    IF ~StrictEnrolled(user, course_id)
    THEN Reply(op, 400, [detail |-> "Not enrolled in the course"], user)
    ELSE Reply(op, 0, [detail |-> "insert"], user)

\* src/backend/main.py mark_attendance, add_grade: the course must exist
BackendWrite(op, user, course_id) ==
    IF ~IsValidId(course_id)
    THEN Reply(op, 500, [detail |-> "InvalidId"], user)
    ELSE IF FindCourse(ObjectId(course_id)) = <<>>
    THEN Reply(op, 404, [detail |-> "Course not found"], user)
    ELSE Reply(op, 0, [detail |-> "insert"], user)

WriteCheck(op, authorization, course_id) ==
    LET gate == get_current_user(authorization)
    IN  IF ~gate.ok THEN Refused(op, gate)
        ELSE IF variant = "strict" THEN StrictWrite(op, gate.user, course_id)
        ELSE BackendWrite(op, gate.user, course_id)

\* POST /attendance/mark
MarkAttendanceRequest(authorization, course_id, status) ==
        LET out == WriteCheck("mark_attendance", authorization, course_id)
            rec == Record(attendance, out.user._id, course_id)
            att == [_id |-> rec._id, student_id |-> rec.student_id,
                    course_id |-> rec.course_id, status |-> status]
        IN  /\ IF out.status = 0
               THEN /\ attendance' = Append(attendance, att)
                    /\ resp' = IF variant = "strict"
                               THEN Reply("mark_attendance", 200,
                                          [message |-> "Attendance marked"], out.user)
                               ELSE Reply("mark_attendance", 200, to_dict(att), out.user)
               ELSE /\ resp' = out
                    /\ UNCHANGED attendance
            /\ UNCHANGED <<variant, now, student, session, course, enrollment,
                           grade, pending>>

MarkAttendance ==
    \E authorization \in Headers, course_id \in CourseRefs, status \in {"present"} :
        /\ MarkAttendanceRequest(authorization, course_id, status)
        /\ Len(attendance') <= MaxAttendance

\* POST /grades
AddGradeRequest(authorization, course_id, g) ==
        LET out == WriteCheck("add_grade", authorization, course_id)
            rec == Record(grade, out.user._id, course_id)
            item == [_id |-> rec._id, student_id |-> rec.student_id,
                     course_id |-> rec.course_id, grade |-> g]
        IN  /\ IF out.status = 0
               THEN /\ grade' = Append(grade, item)
                    /\ resp' = IF variant = "strict"
                               THEN Reply("add_grade", 200,
                                          [message |-> "Grade added"], out.user)
                               ELSE Reply("add_grade", 200, to_dict(item), out.user)
               ELSE /\ resp' = out
                    /\ UNCHANGED grade
            /\ UNCHANGED <<variant, now, student, session, course, enrollment,
                           attendance, pending>>

AddGrade ==
    \E authorization \in Headers, course_id \in CourseRefs, g \in GradeValues :
        /\ AddGradeRequest(authorization, course_id, g)
        /\ Len(grade') <= MaxGrades

\* -------------------------------------------------------------- dashboard
RECURSIVE SumGrades(_)
SumGrades(docs) ==
    IF docs = <<>> THEN 0 ELSE Head(docs).grade + SumGrades(Tail(docs))

\* a quotient num / den of Python's true division
Quotient(num, den) == [num |-> num, den |-> den]

Max(a, b) == IF a >= b THEN a ELSE b

AttendanceOf(student_id, course_id) ==
    LET Mine(a) == a.student_id = student_id /\ a.course_id = course_id
    IN  SelectSeq(attendance, Mine)

GradesOf(student_id, course_id) ==
    LET Mine(g) == g.student_id = student_id /\ g.course_id = course_id
    IN  SelectSeq(grade, Mine)

EnrollmentsOf(student_id) ==
    LET Mine(e) == e.student_id = student_id
    IN  SelectSeq(enrollment, Mine)

\* src/main.py dashboard: sum / max(len, 1)
StrictAverage(grade_docs) == Quotient(SumGrades(grade_docs), Max(Len(grade_docs), 1))

\* src/backend/main.py dashboard: sum / len if grades else 0
BackendAverage(grades) ==
    IF grades # <<>> THEN Quotient(SumGrades(grades), Len(grades))
    ELSE Quotient(0, 1)

\* src/main.py dashboard: the enrolled courses, each with the records filed
\* under str(course["_id"])
StrictCourses(user) ==
    LET enrolls == EnrollmentsOf(user._id)
        course_ids == {ObjectId(enrolls[i].course_id) : i \in DOMAIN enrolls}
        Enrolled(c) == c._id \in course_ids
        found == SelectSeq(course, Enrolled)
    IN  [i \in DOMAIN found |-> to_dict(found[i])]

StrictProgress(user) ==
    LET courses == StrictCourses(user)
    IN  [i \in DOMAIN courses |->
            [course |-> courses[i],
             attendance_records |-> Len(AttendanceOf(user._id, courses[i]._id)),
             avg_grade |-> StrictAverage(GradesOf(user._id, courses[i]._id))]]

\* src/backend/main.py dashboard: one entry per enrollment whose course
\* exists, with the records filed under the enrollment's course_id
BackendProgress(user) ==
    LET HasCourse(e) == FindCourse(ObjectId(e.course_id)) # <<>>
        enrollments == SelectSeq(EnrollmentsOf(user._id), HasCourse)
    IN  [i \in DOMAIN enrollments |->
            LET cid == enrollments[i].course_id
            IN  [course |-> to_dict(FindCourse(ObjectId(cid))[1]),
                 attendance_records |-> Len(AttendanceOf(user._id, cid)),
                 avg_grade |-> BackendAverage(GradesOf(user._id, cid))]]

\* GET /dashboard
Dashboard ==
    \E authorization \in Headers :
        LET gate == get_current_user(authorization)
        IN  /\ resp' = IF ~gate.ok THEN Refused("dashboard", gate)
                       ELSE IF variant = "strict"
                       THEN Reply("dashboard", 200,
                                  [user |-> gate.user,
                                   courses |-> StrictCourses(gate.user),
                                   progress |-> StrictProgress(gate.user)], gate.user)
                       ELSE Reply("dashboard", 200,
                                  [progress |-> BackendProgress(gate.user)], gate.user)
            /\ UNCHANGED <<variant, now, student, session, course, enrollment,
                           attendance, grade, pending>>

\* ------------------------------------------------------------------- seed
\* src/backend/main.py seed: demo_courses
DemoCourses(first) ==
    << [_id |-> first, code |-> "CS101", title |-> "Intro to Programming"],
       [_id |-> first + 1, code |-> "CS201", title |-> "Data Structures"],
       [_id |-> first + 2, code |-> "CS301", title |-> "Databases"] >>

\* a worker runs POST /seed up to its count_documents
SeedBegin(t) ==
    /\ variant = "backend"
    /\ pending[t].op = "idle"
    /\ IF Len(course) > 0
       THEN /\ resp' = Ok("seed", [message |-> "Already seeded"])
            /\ UNCHANGED pending
       ELSE /\ Len(DemoCourses(1)) * (InFlight("seed") + 1) <= MaxCourses
            /\ pending' = [pending EXCEPT ![t] = [op |-> "seed"]]
            /\ UNCHANGED resp
    /\ UNCHANGED <<variant, now, student, session, course, enrollment,
                   attendance, grade>>

\* the worker's insert_many and response
SeedInsert(t) ==
    /\ pending[t].op = "seed"
    /\ course' = course \o DemoCourses(InsertedId(course))
    /\ resp' = Ok("seed", [message |-> "Seeded", count |-> Len(DemoCourses(1))])
    /\ pending' = [pending EXCEPT ![t] = Idle]
    /\ UNCHANGED <<variant, now, student, session, enrollment, attendance, grade>>

\* the wall clock moves on
Tick ==
    /\ now < MaxTime
    /\ now' = now + 1
    /\ UNCHANGED <<variant, student, session, course, enrollment, attendance,
                   grade, pending, resp>>

\* ------------------------------------------------------------------- init
\* The database outlives the process: at start it is empty, or, where roles
\* are read (src/main.py), holds the administrator account an operator wrote
\* into it (no endpoint sets a role).
AdminDoc(v) == [StrictStudent(1, "A", 1, 1) EXCEPT !.role = "admin"]

Init ==
    /\ variant \in Variants
    /\ now = 0
    /\ student \in IF variant = "strict" THEN {<<>>, <<AdminDoc(variant)>>} ELSE {<<>>}
    /\ session = <<>>
    /\ course = <<>>
    /\ enrollment = <<>>
    /\ attendance = <<>>
    /\ grade = <<>>
    /\ pending = [t \in Threads |-> Idle]
    /\ resp = Reply("none", 0, [detail |-> ""], Anonymous)

Next ==
    \/ Register
    \/ Login
    \/ CreateCourse
    \/ \E t \in Threads : EnrollBegin(t)
    \/ \E t \in Threads : EnrollInsert(t)
    \/ Enroll
    \/ Dashboard
    \/ \E t \in Threads : SeedBegin(t)
    \/ \E t \in Threads : SeedInsert(t)
    \/ MarkAttendance
    \/ AddGrade
    \/ Tick

Spec == Init /\ [][Next]_vars

\* registration, login and the clock
NextAuth ==
    \/ Register
    \/ Login
    \/ Tick

SpecAuth == Init /\ [][NextAuth]_vars

\* the course store: creation and seeding, with the clock
NextCourses ==
    \/ Register
    \/ Login
    \/ CreateCourse
    \/ \E t \in Threads : SeedBegin(t)
    \/ \E t \in Threads : SeedInsert(t)
    \/ Tick

SpecCourses == Init /\ [][NextCourses]_vars

\* enrollment with two workers between check and insert
NextEnroll ==
    \/ Register
    \/ Login
    \/ CreateCourse
    \/ \E t \in Threads : EnrollBegin(t)
    \/ \E t \in Threads : EnrollInsert(t)

SpecEnroll == Init /\ [][NextEnroll]_vars

\* The record stores and the dashboard, one request at a time, by a process
\* started over the database earlier runs left behind: two accounts, each
\* with a session minted at the start, and two courses.
InitRecords ==
    /\ variant \in Variants
    /\ now = 0
    /\ student = IF variant = "strict"
                 THEN <<AdminDoc(variant), StrictStudent(2, "A", 2, 1)>>
                 ELSE <<BackendStudent(1, "A", 1, 1), BackendStudent(2, "A", 2, 1)>>
    /\ session = [i \in 1..2 |->
                    IF variant = "strict"
                    THEN [_id |-> i, user_id |-> i, token |-> i,
                          expires_at |-> SessionWeeks, created_at |-> 0]
                    ELSE [_id |-> i, student_id |-> Str(i), token |-> i,
                          expires_at |-> SessionWeeks, created_at |-> 0]]
    /\ course = <<[_id |-> 1, code |-> "CS101", title |-> "T"],
                  [_id |-> 2, code |-> "X1", title |-> "T"]>>
    /\ enrollment = <<>>
    /\ attendance = <<>>
    /\ grade = <<>>
    /\ pending = [t \in Threads |-> Idle]
    /\ resp = Reply("none", 0, [detail |-> ""], Anonymous)

NextRecords ==
    \/ Enroll
    \/ MarkAttendance
    \/ AddGrade
    \/ Dashboard

SpecRecords == InitRecords /\ [][NextRecords]_vars

\* the stricter deployment's record stores
InitStrictRecords == InitRecords /\ variant = "strict"

NextStrictRecords ==
    \/ Enroll
    \/ MarkAttendance
    \/ AddGrade

SpecStrictRecords == InitStrictRecords /\ [][NextStrictRecords]_vars

\* seeding by two workers, alongside registration, login and the clock
NextSeed ==
    \/ Register
    \/ Login
    \/ \E t \in Threads : SeedBegin(t)
    \/ \E t \in Threads : SeedInsert(t)
    \/ Tick

SpecSeed == Init /\ [][NextSeed]_vars

\* the stricter deployment started over an empty database, one request at a
\* time
InitStrictEmpty == Init /\ variant = "strict" /\ student = <<>>

NextStrictEmpty ==
    \/ Register
    \/ Login
    \/ CreateCourse
    \/ Enroll
    \/ MarkAttendance
    \/ AddGrade
    \/ Dashboard
    \/ Tick

SpecStrictEmpty == InitStrictEmpty /\ [][NextStrictEmpty]_vars
\* ================================================================ claims
Bearer(token) == [kind |-> "bearer", cred |-> token]

\* C1: a token minted by register or login at time t is accepted by the
\* authentication gate at every time strictly before t + 7 days and refused
\* with 401 at every time at or after it, whatever happened in between.
C1_TokenValidUntilExpiry ==
    \A i \in DOMAIN session :
        LET r == get_current_user(Bearer(session[i].token))
        IN  IF now < session[i].created_at + SessionWeeks
            THEN r.ok
            ELSE ~r.ok /\ r.status = 401

\* C2: the gate refuses with 401 every header that is absent or carries no
\* bearer-style credential, a valid unexpired token without the prefix
\* included.
C2_BearerRequired ==
    \A h \in Headers :
        h.kind # "bearer" =>
            LET r == get_current_user(h) IN ~r.ok /\ r.status = 401

\* C3: a register request for the email of a stored identity is answered 400
\* and leaves the identity store and the session store as they were.
C3_DuplicateEmailRejected ==
    [][\A name \in Names, email \in Emails, password \in Passwords :
          (EmailTaken(email) /\ RegisterRequest(name, email, password))
              => /\ resp'.status = 400
                 /\ student' = student
                 /\ session' = session]_vars

C3_Witness ==
    /\ resp.op = "register"
    /\ resp.status = 400
    /\ EmailTaken(resp.req.email)
    /\ session # <<>>

\* what it is for a supplied credential to match the stored one
CredentialMatches(user, password) ==
    IF "password_hash" \in DOMAIN user
    THEN user.password_hash = hash_password(password)
    ELSE user.password = password

WrongCredential(email, password) ==
    \E i \in DOMAIN student :
        student[i].email = email /\ ~CredentialMatches(student[i], password)

\* C4: a login for an unknown email and a login with a credential that does
\* not match the stored one get the same 401 response, whose body is the
\* fixed message and nothing else, and add no session.
C4_LoginFailureUniform ==
    [][\A email \in Emails, password \in LoginPasswords :
          ((~EmailTaken(email) \/ WrongCredential(email, password))
              /\ LoginRequest(email, password))
              => /\ resp'.status = 401
                 /\ resp'.body = [detail |-> "Invalid credentials"]
                 /\ session' = session]_vars

C4_Witness ==
    /\ resp.op = "login"
    /\ resp.status = 401
    /\ WrongCredential(resp.req.email, resp.req.password)

CredentialFields == {"password", "password_hash"}

\* C5: no stored identity holds a plaintext credential, and the identity the
\* gate hands to the handlers has the fields _id, name, email and role only.
C5_CredentialNeverExposed ==
    /\ \A i \in DOMAIN student :
          \A f \in CredentialFields \cap DOMAIN student[i] :
              student[i][f] \notin Passwords
    /\ \A h \in Headers :
          LET r == get_current_user(h)
          IN  r.ok => DOMAIN r.user = {"_id", "name", "email", "role"}
\* C6 as stated of both deployments: a POST /courses by an authenticated
\* identity whose role is not admin is answered 403 and leaves the course
\* store as it was, and every course POST /courses adds is added for an admin.
C6_OnlyAdminCreatesCourses ==
    [][/\ \A h \in Headers, code \in Codes, title \in Titles :
             LET r == get_current_user(h)
             IN  (r.ok /\ r.user.role # "admin"
                       /\ CreateCourseRequest(h, code, title))
                     => (resp'.status = 403 /\ course' = course)
       /\ (resp'.op = "create_course" /\ Len(course') > Len(course))
             => resp'.user.role = "admin"]_vars

\* C6 amended: the same of the stricter deployment (src/main.py) alone.
C6_StrictOnlyAdminCreatesCourses ==
    [][variant = "strict" =>
          /\ \A h \in Headers, code \in Codes, title \in Titles :
                LET r == get_current_user(h)
                IN  (r.ok /\ r.user.role # "admin"
                          /\ CreateCourseRequest(h, code, title))
                        => (resp'.status = 403 /\ course' = course)
          /\ (resp'.op = "create_course" /\ Len(course') > Len(course))
                => resp'.user.role = "admin"]_vars

C6_Witness ==
    /\ variant = "strict"
    /\ resp.op = "create_course"
    /\ resp.status = 403
    /\ resp.user.role = "student"
    /\ course # <<>>

\* C7: the enrollment store never holds two records with the same student
\* and the same course, also when two enroll requests of one caller for one
\* course run their existence checks before either inserts.
C7_OneEnrollmentPerPair ==
    \A i, j \in DOMAIN enrollment :
        i # j => ~(/\ enrollment[i].student_id = enrollment[j].student_id
                   /\ enrollment[i].course_id = enrollment[j].course_id)

UniqueCodes ==
    \A i, j \in DOMAIN course : i # j => course[i].code # course[j].code

\* C8: no two courses ever share a code: a POST /courses with the code of an
\* existing course is answered 400 and leaves the course store as it was, and
\* no create or seed step adds a second course with a code already stored.
C8_CourseCodesUnique ==
    [][/\ UniqueCodes /\ UniqueCodes'
       /\ \A h \in Headers, code \in Codes, title \in Titles :
             (get_current_user(h).ok /\ CodeExists(code)
                  /\ CreateCourseRequest(h, code, title))
                 => (resp'.status = 400 /\ course' = course)]_vars

SameCourse(a, b) == IsValidId(a) /\ IsValidId(b) /\ ObjectId(a) = ObjectId(b)

Enrolled(student_id, course_id) ==
    \E i \in DOMAIN enrollment :
        /\ enrollment[i].student_id = student_id
        /\ SameCourse(enrollment[i].course_id, course_id)

RecordsHaveEnrollment ==
    /\ \A i \in DOMAIN attendance :
          FindEnrollment(attendance[i].student_id, attendance[i].course_id) # <<>>
    /\ \A i \in DOMAIN grade :
          FindEnrollment(grade[i].student_id, grade[i].course_id) # <<>>

\* C9: in the stricter deployment mark_attendance and add_grade answer 400
\* and write nothing when the caller has no enrollment for the course, and
\* every attendance record and every grade record has an enrollment record
\* of the same student for the same course.
C9_StrictRecordsNeedEnrollment ==
    [][variant = "strict" =>
          /\ RecordsHaveEnrollment /\ RecordsHaveEnrollment'
          /\ resp'.op = "mark_attendance" =>
                \A h \in Headers, course_id \in CourseRefs :
                    LET r == get_current_user(h)
                    IN  (r.ok /\ ~Enrolled(r.user._id, course_id)
                              /\ MarkAttendanceRequest(h, course_id, "present"))
                            => (resp'.status = 400 /\ attendance' = attendance)
          /\ resp'.op = "add_grade" =>
                \A h \in Headers, course_id \in CourseRefs, g \in GradeValues :
                    LET r == get_current_user(h)
                    IN  (r.ok /\ ~Enrolled(r.user._id, course_id)
                              /\ AddGradeRequest(h, course_id, g))
                            => (resp'.status = 400 /\ grade' = grade)]_vars

C9_Witness ==
    /\ variant = "strict"
    /\ resp.op = "add_grade"
    /\ resp.status = 400
    /\ attendance # <<>>
    /\ grade # <<>>

\* the caller's records for a course, whatever string names the course
AttendanceFor(student_id, course_id) ==
    LET Mine(a) == a.student_id = student_id /\ SameCourse(a.course_id, course_id)
    IN  SelectSeq(attendance, Mine)

GradesFor(student_id, course_id) ==
    LET Mine(g) == g.student_id = student_id /\ SameCourse(g.course_id, course_id)
    IN  SelectSeq(grade, Mine)

\* C10: every entry of the caller's dashboard has avg_grade 0 when the
\* caller has no grade for the entry's course and the sum of the caller's
\* grades for it divided by their number otherwise, and attendance_records
\* the number of the caller's attendance records for it.
C10_DashboardAggregates ==
    (resp.op = "dashboard" /\ resp.status = 200) =>
        \A i \in DOMAIN resp.body.progress :
            LET p == resp.body.progress[i]
                gs == GradesFor(resp.user._id, p.course._id)
                as == AttendanceFor(resp.user._id, p.course._id)
            IN  /\ gs = <<>> => p.avg_grade.num = 0
                /\ gs # <<>> =>
                      p.avg_grade.num * Len(gs) = SumGrades(gs) * p.avg_grade.den
                /\ p.attendance_records = Len(as)

DemoCodes == {DemoCourses(1)[i].code : i \in DOMAIN DemoCourses(1)}

DemoOnce ==
    \A code \in DemoCodes :
        Cardinality({i \in DOMAIN course : course[i].code = code}) <= 1

\* C11: POST /seed inserts the demo courses only into an empty course store;
\* over a non-empty store it answers "Already seeded" and leaves the store as
\* it was; and whatever seed requests ran, however their count checks and
\* inserts interleaved, each demo course is stored at most once.
C11_SeedIdempotent ==
    [][/\ DemoOnce /\ DemoOnce'
       /\ \A t \in Threads :
             /\ SeedInsert(t) => course = <<>>
             /\ (SeedBegin(t) /\ course # <<>>)
                   => (/\ resp'.body = [message |-> "Already seeded"]
                       /\ course' = course)]_vars

NoAdmin == \A i \in DOMAIN student : student[i].role = "student"

RolesKept ==
    \A i \in DOMAIN student :
        i \in DOMAIN student' /\ student'[i].role = student[i].role

\* C12 as stated: in src/main.py started over an empty database no identity
\* ever has role admin, the course store stays empty, every POST /courses is
\* answered 403 and every POST /enroll is answered 404.
C12_NoAdminFromEmpty ==
    /\ NoAdmin
    /\ course = <<>>
    /\ resp.op = "create_course" => resp.status = 403
    /\ resp.op = "enroll" => resp.status = 404

NoCourseEver ==
    /\ NoAdmin
    /\ course = <<>>
    /\ enrollment = <<>>
    /\ resp.op = "create_course" =>
          resp.status = (IF resp.user = Anonymous THEN 401 ELSE 403)
    /\ resp.op = "enroll" =>
          \/ resp.status = 401 /\ resp.user = Anonymous
          \/ /\ resp.status = 400
             /\ resp.user # Anonymous
             /\ resp.body = [detail |-> "Invalid id format"]
          \/ resp.status = 404 /\ resp.user # Anonymous

\* C12 with the gate and the id check accounted for: in src/main.py started
\* over an empty database every identity has role student and no step changes
\* a stored role, the course and enrollment stores stay empty, a POST /courses
\* is answered 403 when the gate resolved an identity and 401 when it did not,
\* and a POST /enroll is answered 401 when the gate resolved no identity, 400
\* for a malformed course id and 404 otherwise.
C12_StrictNoAdminFromEmpty ==
    [][NoCourseEver /\ NoCourseEver' /\ RolesKept]_vars

C12_Witness ==
    /\ variant = "strict"
    /\ Len(student) = MaxStudents
    /\ resp.op = "create_course"
    /\ resp.status = 403
    /\ resp.user.role = "student"
====
